---- MODULE Spec2Model ----
(***************************************************************************)
(* ATS-Friend backend: source normalisation (createresume.py line 99,      *)
(* llm/__init__.py line 95) and the LaTeX-to-PDF compilation call          *)
(* convert_latex_to_pdf (createresume.py lines 85-174) as it is driven by  *)
(* the route get_resume_pdf (routes.py lines 186-199); profile extraction  *)
(* convert_pdf_to_json (readresume.py lines 29-115) behind get_pdf_resume  *)
(* (routes.py lines 141-163); resume synthesis behind new_resumes          *)
(* (routes.py lines 40-53 and 176-184).                                    *)
(***************************************************************************)
EXTENDS Integers, Sequences, FiniteSets, TLC

VARIABLES
    \* ---- normaliser harness ----
    raw,        \* text handed to a normaliser (sequence of characters)
    pieces,     \* number of pieces the text was assembled from
    fenced,     \* "no", or the record [tag, body] the text was fenced from
    npc,        \* "build", "latex" or "json": which normaliser has run
    once,       \* normaliser applied once to raw
    twice,      \* normaliser applied to its own result
    \* ---- compilation ----
    dirs,       \* existing workspace directories: name -> creating invocation
    files,      \* existing files: [dir, base, ext] -> content
    pc,         \* position of each invocation
    via,        \* "none", "route" or "direct": who called convert_latex_to_pdf
    name,       \* output_filename, a sequence of path components
    clean,      \* clean_latex_code
    ws,         \* temp_dir of the invocation (0: none yet)
    procs,      \* running processes started by the invocation
    cout,       \* what the compiler process did (ghost)
    rc,         \* process.returncode
    runs,       \* calls of subprocess.run made by the invocation
    pending,    \* the return value or exception leaving the with-block
    response,   \* the StreamingResponse built by the invocation
    touched,    \* owners of the directories the invocation accessed (ghost)
    http,       \* what get_resume_pdf answered
    \* ---- profile extraction ----
    epc,        \* position of the extraction request
    upload,     \* the uploaded file: content type and number of bytes
    ecalls,     \* calls of text_gen_pdf made for the request
    reply,      \* what the generative service answered (ghost)
    response_text, \* what text_gen_pdf returned, by its JSON content
    epending,   \* the exception leaving convert_pdf_to_json, if any
    profile,    \* the ProfileModel returned
    ehttp,      \* what get_pdf_resume answered
    \* ---- resume synthesis ----
    spc,        \* position of the synthesis request
    sreq,       \* the NewResume of the request
    scalls,     \* calls of text_gen made for the request
    gen,        \* gen_resume, what text_gen ended with
    resumes,    \* rows of the table new_resume
    before,     \* the rows when the request arrived (ghost)
    shttp,      \* what new_resumes answered
    \* ---- accounts and listings ----
    users,      \* rows of the table user; the id of a row is its position
    ubefore,    \* the rows when the last request arrived (ghost)
    areq,       \* the last request
    ares,       \* what the repository returned for it
    ahttp       \* what the route answered

nvars == <<raw, pieces, fenced, npc, once, twice>>
cvars == <<dirs, files, pc, via, name, clean, ws, procs, cout, rc, runs,
           pending, response, touched, http>>
avars == <<users, ubefore, areq, ares, ahttp>>
svars == <<spc, sreq, scalls, gen, resumes, before, shttp>>
evars == <<epc, upload, ecalls, reply, response_text, epending, profile, ehttp>>
vars  == <<raw, pieces, fenced, npc, once, twice,
           dirs, files, pc, via, name, clean, ws, procs, cout, rc, runs,
           pending, response, touched, http,
           epc, upload, ecalls, reply, response_text, epending, profile, ehttp,
           spc, sreq, scalls, gen, resumes, before, shttp,
           users, ubefore, areq, ares, ahttp>>
\* what the steps of one part of the program leave alone
besidesNorm     == <<cvars, evars, svars, avars>>
besidesCompile  == <<nvars, evars, svars, avars>>
besidesExtract  == <<nvars, cvars, svars, avars>>
besidesSynth    == <<nvars, cvars, evars, avars>>
besidesAccounts == <<nvars, cvars, evars, svars>>

(***************************************************************************)
(* Bounds                                                                  *)
(***************************************************************************)
MaxPieces == 3      \* pieces a test text is assembled from
NumInv    == 2      \* invocations that may overlap
MaxList   == 3      \* elements of an array in the answer of the service
MaxResumes == 2     \* rows the table new_resume may hold
MaxUsers  == 2      \* rows the table user may hold
MaxErr    == 1      \* characters the compiler writes on its error stream
DiagLimit == 2      \* a size limit for the diagnostic of a failure

(***************************************************************************)
(* Strings are sequences of one-character strings.                         *)
(***************************************************************************)
\* the backquote character U+0060 (the lexer of SANY rejects it in a string)
BQ        == "BQ"
Fence     == <<BQ, BQ, BQ>>
LatexWord == <<"l", "a", "t", "e", "x">>
JsonWord  == <<"j", "s", "o", "n">>
NL        == <<"\n">>
Whitespace == {" ", "\n"}

\* str.startswith
StartsWith(s, p) == Len(s) >= Len(p) /\ SubSeq(s, 1, Len(p)) = p

\* str.replace(old, new): leftmost, non-overlapping occurrences
RECURSIVE Replace(_, _, _)
Replace(s, old, new) ==
    IF Len(s) < Len(old) THEN s
    ELSE IF StartsWith(s, old)
         THEN new \o Replace(SubSeq(s, Len(old) + 1, Len(s)), old, new)
         ELSE <<Head(s)>> \o Replace(Tail(s), old, new)

RECURSIVE LStrip(_)
LStrip(s) == IF s # <<>> /\ Head(s) \in Whitespace THEN LStrip(Tail(s)) ELSE s

RECURSIVE RStrip(_)
RStrip(s) ==
    IF s # <<>> /\ s[Len(s)] \in Whitespace
    THEN RStrip(SubSeq(s, 1, Len(s) - 1)) ELSE s

\* str.strip()
Strip(s) == RStrip(LStrip(s))

\* createresume.py:99
NormalizeLatex(s) == Strip(Replace(Replace(s, Fence \o LatexWord, <<>>), Fence, <<>>))

\* llm/__init__.py:95
NormalizeJson(s) == Strip(Replace(Replace(s, Fence, <<>>), JsonWord, <<>>))

RECURSIVE Contains(_, _)
Contains(s, p) ==
    IF Len(s) < Len(p) THEN FALSE
    ELSE StartsWith(s, p) \/ Contains(Tail(s), p)

(***************************************************************************)
(* Normaliser harness: a text is assembled from pieces, optionally wrapped *)
(* in a fence with a language tag, then one of the two normalisers of the  *)
(* repository is applied to it, and again to its own result.               *)
(***************************************************************************)

AppendPiece(p) ==
    /\ UNCHANGED besidesNorm
    /\ npc = "build"
    /\ ~fenced.on
    /\ pieces < MaxPieces
    /\ raw' = raw \o p
    /\ pieces' = pieces + 1
    /\ UNCHANGED <<fenced, npc, once, twice>>

\* the text "```<tag>\n<body>\n```"
WrapInFence(tag) ==
    /\ UNCHANGED besidesNorm
    /\ npc = "build"
    /\ ~fenced.on
    /\ raw' = Fence \o tag \o NL \o raw \o NL \o Fence
    /\ fenced' = [on |-> TRUE, tag |-> tag, body |-> raw]
    /\ UNCHANGED <<pieces, npc, once, twice>>

\* createresume.py:99 applied to raw, and to its result
ApplyLatex ==
    /\ UNCHANGED besidesNorm
    /\ npc = "build"
    /\ once' = NormalizeLatex(raw)
    /\ twice' = NormalizeLatex(NormalizeLatex(raw))
    /\ npc' = "latex"
    /\ UNCHANGED <<raw, pieces, fenced>>

\* llm/__init__.py:95 applied to raw, and to its result
ApplyJson ==
    /\ UNCHANGED besidesNorm
    /\ npc = "build"
    /\ once' = NormalizeJson(raw)
    /\ twice' = NormalizeJson(NormalizeJson(raw))
    /\ npc' = "json"
    /\ UNCHANGED <<raw, pieces, fenced>>

NNext ==
    \/ \E p \in { <<BQ>>, <<BQ, BQ>>, Fence, LatexWord, JsonWord,
                   <<"j", "s">>, <<"o", "n">>, <<" ">>, NL, <<"X">> } :
          AppendPiece(p)
    \/ \E t \in { <<>>, LatexWord, JsonWord, <<"p", "y">> } : WrapInFence(t)
    \/ ApplyLatex
    \/ ApplyJson

(***************************************************************************)
(* Compilation: paths, files and the stored resumes                        *)
(***************************************************************************)
Inv     == 1..NumInv
\* names mkdtemp can draw: one for each invocation that may hold one
WsNames == 1..NumInv

\* Path components: a workspace name, "..", or a file base name.
Up          == <<"up", 0, 0>>
WsComp(w)   == <<"ws", w, 0>>
WsDir(w)    == <<WsComp(w)>>        \* the directory tempfile.gettempdir()/w
TmpRoot     == <<>>                 \* tempfile.gettempdir() itself

Front(p) == SubSeq(p, 1, Len(p) - 1)
Last(p)  == p[Len(p)]

\* what the operating system makes of a path with ".." components
RECURSIVE Resolve(_)
Resolve(p) ==
    IF p = <<>> THEN <<>>
    ELSE LET r == Resolve(Front(p))
             c == Last(p)
         IN  IF c = Up THEN (IF r = <<>> THEN <<>> ELSE Front(r))
             ELSE Append(r, c)

\* temp_path / f"{output_filename}.<ext>"
FilePath(dir, n, ext) ==
    [dir |-> Resolve(dir \o Front(n)), base |-> Last(n), ext |-> ext]

IsWsDir(d) == Len(d) = 1 /\ d[1][1] = "ws"
DirExists(d) == d = TmpRoot \/ (IsWsDir(d) /\ d[1][2] \in DOMAIN dirs)
\* the invocation that created directory d; 0 for a directory that is no
\* invocation's workspace
Owner(d) == IF IsWsDir(d) /\ d[1][2] \in DOMAIN dirs THEN dirs[d[1][2]] ELSE 0

Put(fs, f, c) == [g \in DOMAIN fs \cup {f} |-> IF g = f THEN c ELSE fs[g]]

PdfContent(t) == [type |-> "pdf", of |-> t]
NoContent     == [type |-> "none", of |-> <<>>]

\* rows of table new_resume: id -> column new_resume
ResumeRows ==
    [r \in {1, 2} |->
        IF r = 1 THEN Fence \o LatexWord \o NL \o <<"X">> \o NL \o Fence
        ELSE <<"X", " ", "X">>]
ResumeIds == {1, 2, 3}
UserIds   == {1}

\* ResumeRepository.get_by_id
get_by_id(r) ==
    IF r \in DOMAIN ResumeRows
    THEN [found |-> TRUE, new_resume |-> ResumeRows[r]]
    ELSE [found |-> FALSE, new_resume |-> <<>>]

\* f"resume_{user_id}_{resume_id}"
RouteName(u, r) == << <<"resume", u, r>> >>

\* names a direct caller of convert_latex_to_pdf may pass
DirectBase  == <<"resume", 0, 0>>

(***************************************************************************)
(* Results of a call                                                       *)
(***************************************************************************)
\* msg is the message of the exception, as the parts it is formatted from
NoPending == [kind |-> "none", exc |-> "none", msg |-> <<>>]
Returns   == [kind |-> "return", exc |-> "none", msg |-> <<>>]
Raises(e, m) == [kind |-> "raise", exc |-> e, msg |-> m]

\* createresume.py:137-139: the whole of process.stderr, or a fixed phrase when
\* it is empty, followed by the whole of log_content
CompileFailed(stderr, log_content) ==
    Raises("RuntimeError",
           <<"PDF generation failed: ">>
           \o (IF stderr # <<>> THEN stderr ELSE <<"No error message provided">>)
           \o <<"\nLog: ">> \o log_content)
\* createresume.py:145
OutputMissing ==
    Raises("RuntimeError", <<"PDF generation failed: ", "Output file not found.">>)
\* createresume.py:172-174
TimedOut == Raises("RuntimeError", <<"PDF generation timed out.">>)

\* the kinds of outcome a caller of convert_latex_to_pdf can tell apart
IsSuccess(p)          == p.kind = "return"
IsTimeout(p)          == p.kind = "raise" /\ p.exc = "RuntimeError"
                         /\ p.msg = <<"PDF generation timed out.">>
IsCompilationError(p) == p.kind = "raise" /\ p.exc = "RuntimeError"
                         /\ Head(p.msg) = "PDF generation failed: "

NoPath     == [dir |-> <<>>, base |-> <<"none", 0, 0>>, ext |-> "none"]
NoResponse == [kind |-> "none", data |-> NoContent, path |-> NoPath]

\* a response that opens the file when its body is sent
LazyResponse(content, path) == [kind |-> "path", data |-> NoContent, path |-> path]
\* createresume.py:148-167: the response owns a copy of the bytes read
BuildResponse(content, path) == [kind |-> "bytes", data |-> content, path |-> NoPath]

\* what a client receives when the body of the response is sent
Delivered(resp) ==
    IF resp.kind = "bytes" THEN resp.data
    ELSE IF resp.path \in DOMAIN files THEN files[resp.path]
    ELSE [type |-> "unreadable", of |-> <<>>]

NoHttp == [status |-> 0, detail |-> "none", body |-> NoContent]

\* text the compiler writes: n characters on its error stream, n characters
\* in its log
LogText(n) == [k \in 1..n |-> "g"]

\* what the compiler process can do once started and left to finish; pdflatex
\* reports errors on its output stream and in the log, its error stream stays
\* empty
CompilerOutcomes ==
    { [how |-> "exit", rc |-> 0, pdf |-> TRUE,  log |-> "log-utf8",
       stderr |-> <<>>, logtext |-> LogText(1)],
      [how |-> "exit", rc |-> 0, pdf |-> FALSE, log |-> "log-utf8",
       stderr |-> <<>>, logtext |-> LogText(1)],
      [how |-> "exit", rc |-> 1, pdf |-> FALSE, log |-> "none",
       stderr |-> <<>>, logtext |-> <<>>],
      [how |-> "exit", rc |-> 1, pdf |-> FALSE, log |-> "log-utf8",
       stderr |-> <<>>, logtext |-> LogText(1)],
      [how |-> "exit", rc |-> 1, pdf |-> FALSE, log |-> "log-bad",
       stderr |-> <<>>, logtext |-> <<>>],
      [how |-> "exit", rc |-> 1, pdf |-> TRUE,  log |-> "log-utf8",
       stderr |-> <<>>, logtext |-> LogText(1)] }
\* the same with any exit code, any files left behind and any amount of text
\* on the error stream and in the log
DiagOutcomes ==
    { [how |-> "exit", rc |-> c, pdf |-> p, log |-> l.kind,
       stderr |-> [k \in 1..e |-> "e"], logtext |-> LogText(l.len)] :
        c \in {0, 1}, p \in BOOLEAN, e \in 0..MaxErr,
        l \in {[kind |-> "none", len |-> 0], [kind |-> "log-bad", len |-> 0]}
              \cup {[kind |-> "log-utf8", len |-> n] : n \in 0..(DiagLimit + 1)} }
NotRun     == [how |-> "none",    rc |-> 0, pdf |-> FALSE, log |-> "none",
               stderr |-> <<>>, logtext |-> <<>>]
NotStarted == [how |-> "nostart", rc |-> 0, pdf |-> FALSE, log |-> "none",
               stderr |-> <<>>, logtext |-> <<>>]
Expired    == [how |-> "timeout", rc |-> 0, pdf |-> FALSE, log |-> "none",
               stderr |-> <<>>, logtext |-> <<>>]

(***************************************************************************)
(* convert_latex_to_pdf, step by step                                      *)
(***************************************************************************)

TexFile(i) == FilePath(WsDir(ws[i]), name[i], "tex")
LogFile(i) == FilePath(WsDir(ws[i]), name[i], "log")
PdfFile(i) == FilePath(WsDir(ws[i]), name[i], "pdf")

\* routes.py:186-192: the row is looked up, a missing row is answered 404,
\* otherwise convert_latex_to_pdf is entered and cleans the text (line 99)
GetResumePdf(i, u, r) ==
    /\ UNCHANGED besidesCompile
    /\ UNCHANGED runs
    /\ pc[i] = "idle"
    /\ IF ~get_by_id(r).found
       THEN /\ http' = [http EXCEPT ![i] =
                   [status |-> 404, detail |-> "User resume not found",
                    body |-> NoContent]]
            /\ UNCHANGED <<pc, via, name, clean>>
       ELSE /\ via' = [via EXCEPT ![i] = "route"]
            /\ name' = [name EXCEPT ![i] = RouteName(u, r)]
            /\ clean' = [clean EXCEPT ![i] = NormalizeLatex(get_by_id(r).new_resume)]
            /\ pc' = [pc EXCEPT ![i] = "mkdtemp"]
            /\ http' = [http EXCEPT ![i] = NoHttp]
    /\ UNCHANGED <<dirs, files, ws, procs, cout, rc, pending, response, touched>>

\* convert_latex_to_pdf called by other code than the route, with any name
DirectCall(i, t, n) ==
    /\ UNCHANGED besidesCompile
    /\ UNCHANGED runs
    /\ pc[i] = "idle"
    /\ via' = [via EXCEPT ![i] = "direct"]
    /\ name' = [name EXCEPT ![i] = n]
    /\ clean' = [clean EXCEPT ![i] = NormalizeLatex(t)]
    /\ pc' = [pc EXCEPT ![i] = "mkdtemp"]
    /\ UNCHANGED <<dirs, files, ws, procs, cout, rc, pending, response,
                   touched, http>>

\* one fixed directory, made with exist_ok
SharedName(existing) == {1}
\* tempfile.mkdtemp: os.mkdir of a random name, retried while the name exists
FreshNames(existing) == WsNames \ existing

\* createresume.py:102
MkDTemp(i, w) ==
    /\ UNCHANGED besidesCompile
    /\ UNCHANGED runs
    /\ pc[i] = "mkdtemp"
    /\ w \in FreshNames(DOMAIN dirs)
    /\ dirs' = [v \in DOMAIN dirs \cup {w} |-> IF v = w THEN i ELSE dirs[v]]
    /\ ws' = [ws EXCEPT ![i] = w]
    /\ pc' = [pc EXCEPT ![i] = "write"]
    /\ UNCHANGED <<files, via, name, clean, procs, cout, rc, pending,
                   response, touched, http>>

\* createresume.py:110-111, the file is opened and written
WriteTex(i) ==
    /\ UNCHANGED besidesCompile
    /\ UNCHANGED runs
    /\ pc[i] = "write"
    /\ LET f == TexFile(i) IN
       IF DirExists(f.dir)
       THEN /\ files' = Put(files, f, [type |-> "tex", of |-> clean[i]])
            /\ touched' = [touched EXCEPT ![i] = @ \cup {Owner(f.dir)}]
            /\ pc' = [pc EXCEPT ![i] = "spawn"]
            /\ UNCHANGED pending
       ELSE /\ pending' = [pending EXCEPT ![i] = Raises("FileNotFoundError", <<"open">>)]
            /\ pc' = [pc EXCEPT ![i] = "exit"]
            /\ UNCHANGED <<files, touched>>
    /\ UNCHANGED <<dirs, via, name, clean, ws, procs, cout, rc, response, http>>

\* createresume.py:110-111, the write fails (disk full, quota)
WriteTexFails(i) ==
    /\ UNCHANGED besidesCompile
    /\ UNCHANGED runs
    /\ pc[i] = "write"
    /\ pending' = [pending EXCEPT ![i] = Raises("OSError", <<"write">>)]
    /\ pc' = [pc EXCEPT ![i] = "exit"]
    /\ UNCHANGED <<dirs, files, via, name, clean, ws, procs, cout, rc,
                   response, touched, http>>

\* createresume.py:115-121, the child process is started
StartCompiler(i) ==
    /\ UNCHANGED besidesCompile
    /\ pc[i] = "spawn"
    /\ procs' = [procs EXCEPT ![i] = {"pdflatex"}]
    /\ runs' = [runs EXCEPT ![i] = @ + 1]
    /\ pc' = [pc EXCEPT ![i] = "running"]
    /\ UNCHANGED <<dirs, files, via, name, clean, ws, cout, rc, pending,
                   response, touched, http>>

\* the start of the compiler is attempted again
RetryStart == "spawn"
\* createresume.py:115-121 and 169-174: the exception leaves the try-block
AfterStartFailure == "exit"

\* createresume.py:115-121, the executable cannot be started; the exception
\* is none of those caught at lines 169-174
StartCompilerFails(i) ==
    /\ UNCHANGED besidesCompile
    /\ pc[i] = "spawn"
    /\ cout' = [cout EXCEPT ![i] = NotStarted]
    /\ runs' = [runs EXCEPT ![i] = @ + 1]
    /\ pending' = [pending EXCEPT ![i] = Raises("FileNotFoundError", <<"pdflatex">>)]
    /\ pc' = [pc EXCEPT ![i] = AfterStartFailure]
    /\ UNCHANGED <<dirs, files, via, name, clean, ws, procs, rc, response,
                   touched, http>>

\* files the compiler leaves in -output-directory, named after the job
CompilerOutput(fs, d, b, o, t) ==
    LET withLog == IF o.log = "none" THEN fs
                   ELSE Put(fs, [dir |-> d, base |-> b, ext |-> "log"], [type |-> o.log, of |-> o.logtext])
    IN  IF o.pdf
        THEN Put(withLog, [dir |-> d, base |-> b, ext |-> "pdf"], PdfContent(t))
        ELSE withLog

\* createresume.py:115-126, the child terminates within the time limit
ChildExits(i, o) ==
    /\ UNCHANGED besidesCompile
    /\ UNCHANGED runs
    /\ pc[i] = "running"
    /\ files' = CompilerOutput(files, WsDir(ws[i]), Last(name[i]), o, clean[i])
    /\ touched' = [touched EXCEPT ![i] = @ \cup {Owner(WsDir(ws[i]))}]
    /\ cout' = [cout EXCEPT ![i] = o]
    /\ rc' = [rc EXCEPT ![i] = o.rc]
    /\ procs' = [procs EXCEPT ![i] = {}]
    /\ pc' = [pc EXCEPT ![i] = "inspect"]
    /\ UNCHANGED <<dirs, via, name, clean, ws, pending, response, http>>

\* the child is left running when the wait for it expires
Abandon(running) == running
\* subprocess.run on expiry of timeout: process.kill() and process.wait() for
\* the child alone
KillOnTimeout(running) == running \ {"pdflatex"}

\* createresume.py:120 and 172-174; helper is whether the compiler has a
\* helper process of its own running at that moment
TimeoutExpired(i, helper) ==
    /\ UNCHANGED besidesCompile
    /\ UNCHANGED runs
    /\ pc[i] = "running"
    /\ procs' = [procs EXCEPT ![i] =
                    KillOnTimeout(@ \cup (IF helper THEN {"helper"} ELSE {}))]
    /\ cout' = [cout EXCEPT ![i] = Expired]
    /\ pending' = [pending EXCEPT ![i] = TimedOut]
    /\ pc' = [pc EXCEPT ![i] = "exit"]
    /\ UNCHANGED <<dirs, files, via, name, clean, ws, rc, response, touched, http>>

\* createresume.py:128-167 with the exit code check left out
InspectIgnoringExitCode(i) ==
    LET pdf == PdfFile(i) IN
    IF pdf \notin DOMAIN files
    THEN [pending |-> OutputMissing, response |-> NoResponse]
    ELSE [pending |-> Returns, response |-> BuildResponse(files[pdf], pdf)]

\* createresume.py:131-135: log_content, empty when there is no log file
ReadLog(i) ==
    IF LogFile(i) \in DOMAIN files THEN files[LogFile(i)].of ELSE <<>>

\* createresume.py:128-167: what the try-block ends with after the child
\* has terminated
InspectResult(i) ==
    LET log == LogFile(i)
        pdf == PdfFile(i)
    IN  IF rc[i] # 0
        THEN IF log \in DOMAIN files /\ files[log].type = "log-bad"
             THEN [pending |-> Raises("UnicodeDecodeError", <<"utf-8">>),
                   response |-> NoResponse]
             ELSE [pending |-> CompileFailed(cout[i].stderr, ReadLog(i)),
                   response |-> NoResponse]
        ELSE IF pdf \notin DOMAIN files
             THEN [pending |-> OutputMissing, response |-> NoResponse]
             ELSE [pending |-> Returns,
                   response |-> BuildResponse(files[pdf], pdf)]

\* the directories in which lines 131-148 look for a file
Inspected(i) ==
    IF rc[i] # 0 THEN {Owner(LogFile(i).dir)} ELSE {Owner(PdfFile(i).dir)}

Inspect(i) ==
    /\ UNCHANGED besidesCompile
    /\ UNCHANGED runs
    /\ pc[i] = "inspect"
    /\ pending' = [pending EXCEPT ![i] = InspectResult(i).pending]
    /\ response' = [response EXCEPT ![i] = InspectResult(i).response]
    /\ touched' = [touched EXCEPT ![i] = @ \cup Inspected(i)]
    /\ pc' = [pc EXCEPT ![i] = "exit"]
    /\ UNCHANGED <<dirs, files, via, name, clean, ws, procs, cout, rc, http>>

\* a cleanup written at the end of the try-block instead of a with-block
RemoveOnReturnOnly(d, w, p) ==
    IF p.kind = "return" THEN [v \in DOMAIN d \ {w} |-> d[v]] ELSE d
\* TemporaryDirectory.__exit__: the directory is removed however the block
\* was left
RemoveWorkspace(d, w, p) == [v \in DOMAIN d \ {w} |-> d[v]]

\* createresume.py:102, leaving the with-block; the result or the exception
\* reaches the caller afterwards
Cleanup(i) ==
    /\ UNCHANGED besidesCompile
    /\ UNCHANGED runs
    /\ pc[i] = "exit"
    /\ touched' = [touched EXCEPT ![i] = @ \cup {Owner(WsDir(ws[i]))}]
    /\ dirs' = RemoveWorkspace(dirs, ws[i], pending[i])
    /\ files' = [f \in {g \in DOMAIN files :
                          g.dir = TmpRoot \/ g.dir[1][2] \in DOMAIN dirs'}
                   |-> files[f]]
    /\ ws' = [ws EXCEPT ![i] = 0]
    /\ pc' = [pc EXCEPT ![i] = IF pending[i].kind = "return"
                               THEN "returned" ELSE "raised"]
    /\ UNCHANGED <<via, name, clean, procs, cout, rc, pending, response, http>>

\* the locals of a finished invocation
Forget(i) ==
    /\ pc' = [pc EXCEPT ![i] = "idle"]
    /\ via' = [via EXCEPT ![i] = "none"]
    /\ name' = [name EXCEPT ![i] = <<DirectBase>>]
    /\ clean' = [clean EXCEPT ![i] = <<>>]
    /\ procs' = [procs EXCEPT ![i] = {}]
    /\ cout' = [cout EXCEPT ![i] = NotRun]
    /\ rc' = [rc EXCEPT ![i] = 0]
    /\ runs' = [runs EXCEPT ![i] = 0]
    /\ pending' = [pending EXCEPT ![i] = NoPending]
    /\ response' = [response EXCEPT ![i] = NoResponse]
    /\ touched' = [touched EXCEPT ![i] = {}]

\* routes.py:193-199 and the body of the response being sent: the request is
\* answered, http[i] keeps the answer until the next request
RouteRespond(i) ==
    /\ UNCHANGED besidesCompile
    /\ via[i] = "route"
    /\ pc[i] \in {"returned", "raised"}
    /\ http' = [http EXCEPT ![i] =
          IF pc[i] = "returned"
          THEN [status |-> 200, detail |-> "none", body |-> Delivered(response[i])]
          ELSE IF pending[i].exc = "RuntimeError"
               THEN [status |-> 500, detail |-> "PDF generation failed",
                     body |-> NoContent]
               ELSE [status |-> 500, detail |-> "unhandled", body |-> NoContent]]
    /\ Forget(i)
    /\ UNCHANGED <<dirs, files, ws>>

\* a direct caller has received the response or the exception
DirectReturn(i) ==
    /\ UNCHANGED besidesCompile
    /\ via[i] = "direct"
    /\ pc[i] \in {"returned", "raised"}
    /\ Forget(i)
    /\ UNCHANGED <<dirs, files, ws, http>>

Compile(i) ==
    \/ \E w \in WsNames : MkDTemp(i, w)
    \/ WriteTex(i)
    \/ WriteTexFails(i)
    \/ StartCompiler(i)
    \/ StartCompilerFails(i)
    \/ \E o \in CompilerOutcomes : ChildExits(i, o)
    \/ \E helper \in BOOLEAN : TimeoutExpired(i, helper)
    \/ Inspect(i)
    \/ Cleanup(i)

(***************************************************************************)
(* Profile extraction: convert_pdf_to_json (readresume.py lines 29-115)    *)
(* behind the route get_pdf_resume (routes.py lines 141-163)               *)
(***************************************************************************)
\* readresume.py:16-27, the fields of ProfileModel
Fields == {"name", "email", "phone", "address", "links", "certifications",
           "projects", "languages", "education", "experience", "skills"}
Required    == {"name", "email"}
AtomicLists == {"links", "languages", "skills"}
EntryLists  == {"certifications", "projects", "education", "experience"}

\* JSON values: a key that is missing, null, a string, an array
Absent   == [t |-> "absent", v |-> <<>>]
None     == [t |-> "null", v |-> <<>>]
JStr(s)  == [t |-> "str", v |-> s]
JList(l) == [t |-> "list", v |-> l]

\* the strings an array of strings is made of, and the objects an array of
\* entries is made of (each entry written as its text)
Entries == { <<"d", "1">>, <<"d", ".", "j", "s", "o", "n">> }
SeqsUpTo(S, n) == UNION { [1..k -> S] : k \in 0..n }
Range(l) == { l[k] : k \in 1..Len(l) }

\* the values the generative service may give a field
Vals(f) ==
    IF f \in AtomicLists
    THEN {Absent, None} \cup { JList(l) : l \in SeqsUpTo({ <<"S", "Q", "L">>, <<"a", ".", "j", "s", "o", "n">> }, MaxList) }
    ELSE IF f \in EntryLists
    THEN {Absent, None} \cup { JList(l) : l \in SeqsUpTo(Entries, MaxList) }
    ELSE {Absent, None, JStr(<<>>), JStr(<<"A">>)}

\* the JSON objects the service may answer with: a profile with a name and an
\* email address and nothing else, changed in up to two fields (lines 90-102
\* treat each field on its own; the empty object is among them)
ModelObjects(f, g) ==
    LET Base == [h \in Fields |-> IF h \in Required THEN JStr(<<"A">>) ELSE Absent]
    IN  { [Base EXCEPT ![f] = x, ![g] = y] : x \in Vals(f), y \in Vals(g) }
EmptyObject == [f \in Fields |-> Absent]

\* what a call of the generative service ends with: an exception, a response
\* without text, text that is not JSON, JSON that is not an object, an object
\* (one with the fields f and g changed)
Replies(f, g) ==
    { [kind |-> k, obj |-> EmptyObject] :
        k \in {"error", "notext", "invalid", "nondict"} }
    \cup { [kind |-> "object", obj |-> o] : o \in ModelObjects(f, g) }
NoReply == [kind |-> "none", obj |-> EmptyObject]

\* llm/__init__.py:95 as it acts on a string inside the JSON text: the two
\* replace() calls run over the whole text, strip() only over its ends
NormalizeValue(s) == Replace(Replace(s, Fence, <<>>), JsonWord, <<>>)
NormalizeField(x) ==
    IF x.t = "str" THEN JStr(NormalizeValue(x.v))
    ELSE IF x.t = "list"
         THEN JList([k \in 1..Len(x.v) |-> NormalizeValue(x.v[k])])
         ELSE x

\* Python: bool(x), dict.get(k), x or None
Truthy(x)  == x.t \in {"str", "list"} /\ x.v # <<>>
Get(d, k)  == IF d[k].t = "absent" THEN None ELSE d[k]

\* list(set(l)): the distinct elements of l, in an order Python does not fix
SetOrders(l) ==
    { o \in [1..Cardinality(Range(l)) -> Range(l)] : Range(o) = Range(l) }
Orderings(d) ==
    { [links |-> a, languages |-> b, skills |-> c] :
        a \in SetOrders(Get(d, "links").v),
        b \in SetOrders(Get(d, "languages").v),
        c \in SetOrders(Get(d, "skills").v) }

\* readresume.py:90-102
CombinedData(d, ord) ==
    [f \in Fields |->
        IF f \in Required THEN (IF Truthy(Get(d, f)) THEN Get(d, f) ELSE None)
        ELSE IF f \in AtomicLists
             THEN IF Truthy(Get(d, f)) THEN JList(ord[f]) ELSE None
        ELSE IF f \in EntryLists
             THEN IF Truthy(Get(d, f)) THEN Get(d, f) ELSE None
        ELSE Get(d, f)]

\* a model whose fields are all Optional
AllOptional(cd) == TRUE
\* readresume.py:16-27 and 105-106: name and email are declared str, every
\* other field Optional
ValidProfile(cd) == \A f \in Required : cd[f].t = "str"

\* readresume.py:43-49
InvalidFileType ==
    Raises("RuntimeError", <<"Invalid file type. Only PDF files are accepted.">>)
EmptyPdf == Raises("RuntimeError", <<"Empty PDF file">>)
\* readresume.py:85-87
InvalidJson ==
    Raises("RuntimeError", <<"Invalid JSON response from LLM: ", "JSONDecodeError">>)
\* readresume.py:107-109
InvalidFormat ==
    Raises("RuntimeError", <<"Invalid resume data format: ", "ValidationError">>)
\* llm/__init__.py:79-93, the request to the service fails
ServiceError == Raises("ServiceError", <<"service unavailable">>)

\* a handler that reports every failure with one fixed message
RewrapGeneric(p) == Raises("RuntimeError", <<"PDF conversion failed">>)
\* readresume.py:113-115
Rewrap(p) == Raises("RuntimeError", p.msg)

\* the kinds of failure a caller of convert_pdf_to_json can tell apart
IsValidationFailure(p) ==
    p.kind = "raise" /\ p.exc = "RuntimeError"
    /\ p.msg \in {InvalidFileType.msg, EmptyPdf.msg}
IsInvalidJson(p) ==
    p.kind = "raise" /\ p.exc = "RuntimeError"
    /\ Head(p.msg) = "Invalid JSON response from LLM: "

NoUpload  == [content_type |-> "none", size |-> 0]
NoProfile == [f \in Fields |-> None]
NoEHttp   == [status |-> 0, detail |-> <<>>, data |-> NoProfile]


\* routes.py:141-156, a file is uploaded
GetPdfResume(ct, n) ==
    /\ UNCHANGED besidesExtract
    /\ epc = "idle"
    /\ upload' = [content_type |-> ct, size |-> n]
    /\ ehttp' = NoEHttp
    /\ epc' = "validate"
    /\ UNCHANGED <<ecalls, reply, response_text, epending, profile>>

\* the payload is accepted whatever its size
TypeCheckOnly(u) == u.content_type # "application/pdf"
\* readresume.py:43-49
UploadRejected(u) == u.content_type # "application/pdf" \/ u.size = 0

\* readresume.py:43-49 and 113-115
RejectUpload ==
    /\ UNCHANGED besidesExtract
    /\ epc = "validate"
    /\ UploadRejected(upload)
    /\ epending' = Rewrap(IF upload.content_type # "application/pdf"
                          THEN InvalidFileType ELSE EmptyPdf)
    /\ epc' = "done"
    /\ UNCHANGED <<upload, ecalls, reply, response_text, profile, ehttp>>

\* readresume.py:74-80 and llm/__init__.py:65-97: the one call of the
\* generative service, answered by r
TextGenPdf(r) ==
    /\ UNCHANGED besidesExtract
    /\ epc = "validate"
    /\ ~UploadRejected(upload)
    /\ ecalls' = ecalls + 1
    /\ reply' = r
    /\ IF r.kind = "error"
       THEN /\ epending' = Rewrap(ServiceError)
            /\ epc' = "done"
            /\ UNCHANGED response_text
       ELSE IF r.kind = "notext"
       THEN \* llm/__init__.py:94-95, response.text is None
            /\ epending' = Rewrap(Raises("AttributeError",
                              <<"'NoneType' object has no attribute 'replace'">>))
            /\ epc' = "done"
            /\ UNCHANGED response_text
       ELSE /\ response_text' = [kind |-> r.kind, obj |-> [f \in Fields |-> NormalizeField(r.obj[f])]]
            /\ epc' = "parse"
            /\ UNCHANGED epending
    /\ UNCHANGED <<upload, profile, ehttp>>

\* readresume.py:82-115: json.loads, combined_data, ProfileModel
BuildProfile(ord) ==
    /\ UNCHANGED besidesExtract
    /\ epc = "parse"
    /\ IF response_text.kind = "invalid"
       THEN epending' = Rewrap(InvalidJson) /\ UNCHANGED profile
       ELSE IF response_text.kind = "nondict"
       THEN \* readresume.py:91, resume_data is not a dict
            /\ epending' = Rewrap(Raises("AttributeError",
                                          <<"object has no attribute 'get'">>))
            /\ UNCHANGED profile
       ELSE LET cd == CombinedData(response_text.obj, ord)
            IN  IF ValidProfile(cd)
                THEN epending' = Returns /\ profile' = cd
                ELSE epending' = Rewrap(InvalidFormat) /\ UNCHANGED profile
    /\ epc' = "done"
    /\ UNCHANGED <<upload, ecalls, reply, response_text, ehttp>>

\* routes.py:155-163: the request is answered
RespondPdf ==
    /\ UNCHANGED besidesExtract
    /\ epc = "done"
    /\ ehttp' = IF epending.kind = "return"
                THEN [status |-> 200, detail |-> <<>>, data |-> profile]
                ELSE IF epending.exc = "RuntimeError"
                THEN [status |-> 500,
                      detail |-> <<"PDF conversion failed: ">> \o epending.msg,
                      data |-> NoProfile]
                ELSE [status |-> 500, detail |-> <<"unhandled">>,
                      data |-> NoProfile]
    /\ upload' = NoUpload
    /\ ecalls' = 0
    /\ reply' = NoReply
    /\ response_text' = NoReply
    /\ epending' = NoPending
    /\ profile' = NoProfile
    /\ epc' = "idle"

\* text is extracted from one uploaded file after the other
NextExtract ==
    \/ \E ct \in {"application/pdf", "text/plain"}, n \in 0..1 : GetPdfResume(ct, n)
    \/ RejectUpload
    \/ epc = "validate" /\ \E f \in Fields, g \in Fields :
                               \E r \in Replies(f, g) : TextGenPdf(r)
    \/ epc = "parse" /\ \E ord \in Orderings(response_text.obj) : BuildProfile(ord)
    \/ RespondPdf

(***************************************************************************)
(* Resume synthesis: the route new_resumes (routes.py lines 176-184),      *)
(* ResumeService.create_resume (routes.py lines 40-53), create_resume      *)
(* (createresume.py lines 11-81) and text_gen (llm/__init__.py lines 11-34) *)
(***************************************************************************)
\* rows of the tables user and profile, and the ids a request may name
StoredUsers    == {1}
StoredProfiles == {1, 2}
RequestIds     == {1, 2, 3}

\* what a call of text_gen ends with: an exception of the service, a response
\* without text, the empty text, a text, a fenced text
Generated ==
    { [kind |-> "error", text |-> <<>>],
      [kind |-> "none",  text |-> <<>>],
      [kind |-> "text",  text |-> <<>>],
      [kind |-> "text",  text |-> <<"X">>],
      [kind |-> "text",  text |-> Fence \o LatexWord \o NL \o <<"X">> \o NL \o Fence] }
NotGenerated == [kind |-> "notcalled", text |-> <<>>]

NoSHttp   == [status |-> 0, detail |-> "none", resume_id |-> 0]
HttpError(code, d) == [status |-> code, detail |-> d, resume_id |-> 0]


\* a lookup that finds a profile under every id
ProfileAlwaysFound(p) == FALSE
\* routes.py:41-42 and config.py:238-242: not profile_details
ProfileMissing(p) == p \notin StoredProfiles

\* routes.py:176-181 and 40-43: the user and the profile are looked up
NewResumes(u, p) ==
    /\ UNCHANGED besidesSynth
    /\ spc = "idle"
    /\ Len(resumes) < MaxResumes
    /\ sreq' = [user_id |-> u, user_resume_id |-> p]
    /\ scalls' = 0
    /\ gen' = NotGenerated
    /\ before' = resumes
    /\ IF u \notin StoredUsers
       THEN shttp' = HttpError(404, "User not found") /\ spc' = "idle"
       ELSE IF ProfileMissing(p)
       THEN shttp' = HttpError(404, "Profile not found") /\ spc' = "idle"
       ELSE shttp' = NoSHttp /\ spc' = "generate"
    /\ UNCHANGED resumes

\* createresume.py:79-81 and llm/__init__.py:23-34: the one call of the
\* generative service; its exception is caught nowhere up to the route
TextGen(g) ==
    /\ UNCHANGED besidesSynth
    /\ spc = "generate"
    /\ scalls' = scalls + 1
    /\ gen' = g
    /\ IF g.kind = "error"
       THEN shttp' = HttpError(500, "unhandled") /\ spc' = "idle"
       ELSE UNCHANGED shttp /\ spc' = "created"
    /\ UNCHANGED <<sreq, resumes, before>>

\* only a missing text counts as a failed generation
MissingOnly(g) == g.kind = "none"
\* routes.py:45, not gen_resume
GenerationFailed(g) == g.kind = "none" \/ g.text = <<>>

\* routes.py:45-53 and 182-184, config.py:268-285; ok is whether the INSERT
\* succeeds
StoreResume(ok) ==
    /\ UNCHANGED besidesSynth
    /\ spc = "created"
    /\ IF GenerationFailed(gen)
       THEN /\ shttp' = HttpError(500, "Resume generation failed")
            /\ UNCHANGED resumes
       ELSE IF ok
       THEN /\ resumes' = Append(resumes,
                   [user_id |-> sreq.user_id,
                    user_resume_id |-> sreq.user_resume_id,
                    new_resume |-> gen.text])
            /\ shttp' = [status |-> 200, detail |-> "none",
                         resume_id |-> Len(resumes) + 1]
       ELSE /\ shttp' = HttpError(400, "Resume creation failed")
            /\ UNCHANGED resumes
    /\ spc' = "idle"
    /\ UNCHANGED <<sreq, scalls, gen, before>>

\* resumes are requested one after the other
NextSynth ==
    \/ \E u \in RequestIds, p \in RequestIds : NewResumes(u, p)
    \/ \E g \in Generated : TextGen(g)
    \/ \E ok \in BOOLEAN : StoreResume(ok)

(***************************************************************************)
(* Accounts and listings: UserRepository (config.py lines 114-192) behind  *)
(* the routes login, signup and update_user_settings (routes.py lines      *)
(* 58-76 and 87-125), and the two listing routes (routes.py lines 166-173  *)
(* and 210-219).  A row of the table user is a record of name, email,      *)
(* password (the hash) and phone; "NULL" stands for None.                  *)
(***************************************************************************)
Emails    == {"a@x", "b@x"}
Passwords == {"p", "q"}

\* bcrypt.hashpw, and with it bcrypt.checkpw: a hash is matched by the
\* password it was made from and by no other
Hash(pw) == <<"bcrypt", pw>>

\* update_payload.dict(exclude_unset=True): any of the keys the code names,
\* each with a value or blank ("")
UpdateData ==
    UNION { { d \in [K -> {"B", "", "1", "q"}] :
                /\ "name" \in K => d["name"] = "B"
                /\ "phone" \in K => d["phone"] \in {"", "1"}
                /\ "password" \in K => d["password"] \in {"", "q"} } :
            K \in SUBSET {"name", "phone", "password"} }

NoUser == [id |-> 0, name |-> "", email |-> "", phone |-> ""]
NoAReq == [op |-> "none", user_id |-> 0, name |-> "", email |-> "",
           password |-> "", phone |-> "", data |-> [k \in {} |-> ""]]
\* what a repository method returns, and whether it wrote to the table
Result(st, msg, w) == [status |-> st, message |-> msg, user |-> NoUser, wrote |-> w]
\* what a route answers
Answer(code, d) == [status |-> code, detail |-> d, items |-> <<>>]

\* an INSERT that accepts any email address
NoConstraint(e) == FALSE
\* config.py:61 and 134-142: email TEXT NOT NULL UNIQUE
EmailTaken(e) == \E k \in 1..Len(users) : users[k].email = e

\* config.py:130-142 and routes.py:68-76
Signup(n, e, pw, ph) ==
    /\ UNCHANGED besidesAccounts
    /\ Len(users) < MaxUsers
    /\ ubefore' = users
    /\ areq' = [NoAReq EXCEPT !.op = "signup", !.name = n, !.email = e,
                              !.password = pw, !.phone = ph]
    /\ IF EmailTaken(e)
       THEN /\ ares' = Result("error", "User already exists", FALSE)
            /\ ahttp' = Answer(400, "User already exists")
            /\ UNCHANGED users
       ELSE /\ users' = Append(users, [name |-> n, email |-> e,
                                       password |-> Hash(pw), phone |-> ph])
            /\ ares' = [Result("success", "none", TRUE) EXCEPT
                           !.user = [NoUser EXCEPT !.name = n, !.email = e]]
            /\ ahttp' = Answer(200, "none")

\* a login that looks at the email address only
EmailMatches(row, e, pw) == row.email = e
\* config.py:120-121: the row of the email, and bcrypt.checkpw on its hash
CredentialsMatch(row, e, pw) == row.email = e /\ row.password = Hash(pw)

\* config.py:118-128 and routes.py:58-66
CheckLogin(e, pw) ==
    /\ UNCHANGED besidesAccounts
    /\ ubefore' = users
    /\ areq' = [NoAReq EXCEPT !.op = "login", !.email = e, !.password = pw]
    /\ IF \E k \in 1..Len(users) : CredentialsMatch(users[k], e, pw)
       THEN LET k == CHOOSE j \in 1..Len(users) : CredentialsMatch(users[j], e, pw)
            IN  /\ ares' = [Result("success", "none", FALSE) EXCEPT
                               !.user = [id |-> k, name |-> users[k].name,
                                         email |-> users[k].email,
                                         phone |-> users[k].phone]]
                /\ ahttp' = Answer(200, "none")
       ELSE /\ ares' = Result("error", "Invalid credentials", FALSE)
            /\ ahttp' = Answer(401, "Invalid credentials")
    /\ UNCHANGED users

\* a password is hashed and stored whenever the key is there
PasswordPresent(d) == "password" \in DOMAIN d
\* config.py:159: 'password' in update_data and update_data['password']
PasswordSupplied(d) == "password" \in DOMAIN d /\ d["password"] # ""

\* config.py:152-192, UserRepository.update: the result and the table after
\* it; fault is what goes wrong on the way: bcrypt.hashpw raises ("hash"),
\* the UPDATE raises sqlitecloud.Error ("dberror") or something else
\* ("unexpected"), or nothing ("ok")
Update(tbl, uid, d, fault) ==
    LET \* lines 167-168: del update_data['password']
        WithoutPassword == [k \in DOMAIN d \ {"password"} |-> d[k]]
        eff == IF PasswordSupplied(d) THEN d ELSE WithoutPassword
        \* lines 173-181: the columns named in update_data are overwritten
        UpdatedRow(row) ==
            [f \in DOMAIN row |->
                IF f \in DOMAIN eff
                THEN IF f = "password" THEN Hash(eff[f]) ELSE eff[f]
                ELSE row[f]]
    IN  IF DOMAIN d = {}
        THEN [res |-> Result("success", "No changes provided.", FALSE), tbl |-> tbl]
        ELSE IF PasswordSupplied(d) /\ fault = "hash"
        THEN [res |-> Result("error", "Password hashing failed", FALSE), tbl |-> tbl]
        ELSE IF ~PasswordSupplied(d) /\ "password" \in DOMAIN d
                /\ DOMAIN WithoutPassword = {}
        THEN [res |-> Result("success", "No effective changes provided.", FALSE),
              tbl |-> tbl]
        ELSE IF fault = "dberror"
        THEN [res |-> Result("error", "Database error: ...", FALSE), tbl |-> tbl]
        ELSE IF fault = "unexpected"
        THEN [res |-> Result("error", "An unexpected error occurred", FALSE),
              tbl |-> tbl]
        ELSE IF uid \notin 1..Len(tbl)
        THEN [res |-> Result("error", "User not found or no changes made", FALSE),
              tbl |-> tbl]
        ELSE [res |-> Result("success", "User updated successfully", TRUE),
              tbl |-> [tbl EXCEPT ![uid] = UpdatedRow(tbl[uid])]]

\* routes.py:87-125
UpdateUserSettings(uid, d, fault) ==
    LET \* lines 104-105: an empty phone is stored as None
        PhoneToNone ==
            [k \in DOMAIN d |-> IF k = "phone" /\ d[k] = "" THEN "NULL" ELSE d[k]]
        \* lines 119-124: the status code of an error, by its message; for
        \* the other messages status_code is never assigned and the raise
        \* statement fails with UnboundLocalError
        ErrorAnswer(msg) ==
            IF msg = "User not found or no changes made" THEN Answer(404, msg)
            ELSE IF msg = "Database error: ..." THEN Answer(500, msg)
            ELSE Answer(500, "unhandled")
    IN  /\ UNCHANGED besidesAccounts
        /\ ubefore' = users
        /\ areq' = [NoAReq EXCEPT !.op = "update", !.user_id = uid, !.data = d]
        /\ IF uid \notin 1..Len(users)
           THEN /\ ares' = Result("none", "none", FALSE)
                /\ ahttp' = Answer(404, "User not found")
                /\ UNCHANGED users
           ELSE LET u == Update(users, uid, PhoneToNone, fault)
                IN  /\ ares' = u.res
                    /\ users' = u.tbl
                    /\ ahttp' = IF u.res.status = "success"
                                THEN Answer(200, u.res.message)
                                ELSE ErrorAnswer(u.res.message)

\* the requests to the account routes, one after the other
NextUsers ==
    \/ \E n \in {"A", "B"}, e \in Emails, pw \in Passwords, ph \in {"1", "NULL"} :
          Signup(n, e, pw, ph)
    \/ \E e \in Emails, pw \in Passwords : CheckLogin(e, pw)
    \/ \E uid \in 1..MaxUsers, d \in UpdateData,
          fault \in {"ok", "hash", "dberror", "unexpected"} :
             UpdateUserSettings(uid, d, fault)

\* routes.py:166-173 with config.py:232-236: the ids of the profiles of the
\* user (the stored profiles all belong to the stored user); both branches
\* answer with success
GetProfileByUserid(u) ==
    LET Keep(p) == p \in StoredProfiles /\ u \in StoredUsers
        profiles == SelectSeq([k \in 1..Cardinality(StoredProfiles) |-> k], Keep)
    IN  /\ UNCHANGED besidesAccounts
        /\ areq' = [NoAReq EXCEPT !.op = "list_profiles", !.user_id = u]
        /\ ares' = Result("none", "none", FALSE)
        /\ ahttp' = [status |-> 200, detail |-> "none", items |-> profiles]
        /\ UNCHANGED <<users, ubefore>>

\* routes.py:210-219 with config.py:287-294: the ids of the rows of
\* new_resume of the user; both branches answer with success and the raise
\* statement after them is never reached
GetAllResumeByUserid(u) ==
    LET Keep(r) == resumes[r].user_id = u
        rows == SelectSeq([k \in 1..Len(resumes) |-> k], Keep)
    IN  /\ UNCHANGED besidesAccounts
        /\ areq' = [NoAReq EXCEPT !.op = "list_resumes", !.user_id = u]
        /\ ares' = Result("none", "none", FALSE)
        /\ ahttp' = [status |-> 200, detail |-> "none", items |-> rows]
        /\ UNCHANGED <<users, ubefore>>

\* listings between the requests for new resumes
NextList ==
    \/ /\ spc = "idle"
       /\ \E u \in RequestIds : GetProfileByUserid(u)
    \/ /\ spc = "idle"
       /\ \E u \in RequestIds : GetAllResumeByUserid(u)
    \/ NextSynth

(***************************************************************************)
(* Specifications                                                          *)
(***************************************************************************)
\* the state of a server that has just started
Init ==
    \* the normaliser has no text yet
    /\ raw = <<>>
    /\ pieces = 0
    /\ fenced = [on |-> FALSE, tag |-> <<>>, body |-> <<>>]
    /\ npc = "build"
    /\ once = <<>>
    /\ twice = <<>>
    \* nothing compiled, no workspace
    /\ dirs = <<>>
    /\ files = <<>>
    /\ pc = [i \in Inv |-> "idle"]
    /\ via = [i \in Inv |-> "none"]
    /\ name = [i \in Inv |-> <<DirectBase>>]
    /\ clean = [i \in Inv |-> <<>>]
    /\ ws = [i \in Inv |-> 0]
    /\ procs = [i \in Inv |-> {}]
    /\ cout = [i \in Inv |-> NotRun]
    /\ rc = [i \in Inv |-> 0]
    /\ runs = [i \in Inv |-> 0]
    /\ pending = [i \in Inv |-> NoPending]
    /\ response = [i \in Inv |-> NoResponse]
    /\ touched = [i \in Inv |-> {}]
    /\ http = [i \in Inv |-> NoHttp]
    \* no upload
    /\ epc = "idle"
    /\ upload = NoUpload
    /\ ecalls = 0
    /\ reply = NoReply
    /\ response_text = NoReply
    /\ epending = NoPending
    /\ profile = NoProfile
    /\ ehttp = NoEHttp
    \* no resume stored
    /\ spc = "idle"
    /\ sreq = [user_id |-> 0, user_resume_id |-> 0]
    /\ scalls = 0
    /\ gen = NotGenerated
    /\ resumes = <<>>
    /\ before = <<>>
    /\ shttp = NoSHttp
    \* no user signed up
    /\ users = <<>>
    /\ ubefore = <<>>
    /\ areq = NoAReq
    /\ ares = Result("none", "none", FALSE)
    /\ ahttp = Answer(0, "none")

\* the deployed program: every compilation is requested through the route
Next ==
    \E i \in Inv :
        \/ \E u \in UserIds, r \in ResumeIds : GetResumePdf(i, u, r)
        \/ Compile(i)
        \/ RouteRespond(i)
Spec == Init /\ [][Next]_vars

\* convert_latex_to_pdf as a function other code may call
NextDirect ==
    \E i \in Inv :
        \/ \E n \in { <<DirectBase>>, <<Up, DirectBase>> }
                     \cup { <<Up, WsComp(w), DirectBase>> : w \in WsNames } :
              DirectCall(i, <<"X">>, n)
        \/ Compile(i)
        \/ DirectReturn(i)
SpecDirect == Init /\ [][NextDirect]_vars

\* the deployed program with a compiler that may write any amount of text
CompileDiag(i) ==
    \/ \E w \in WsNames : MkDTemp(i, w)
    \/ WriteTex(i)
    \/ WriteTexFails(i)
    \/ StartCompiler(i)
    \/ StartCompilerFails(i)
    \/ \E o \in DiagOutcomes : ChildExits(i, o)
    \/ \E helper \in BOOLEAN : TimeoutExpired(i, helper)
    \/ Inspect(i)
    \/ Cleanup(i)
NextDiag ==
    \E i \in Inv :
        \/ \E u \in UserIds, r \in ResumeIds : GetResumePdf(i, u, r)
        \/ CompileDiag(i)
        \/ RouteRespond(i)
SpecDiag == Init /\ [][NextDiag]_vars

\* the extraction requests
SpecExtract == Init /\ [][NextExtract]_vars

\* the synthesis requests
SpecSynth == Init /\ [][NextSynth]_vars

\* the three pipelines, one request after the other: a compilation while no
\* other request is under way and no resume has been stored, a synthesis
\* between compilations, extraction on a server that has done nothing else
CompileQuiet   == \A i \in Inv : pc[i] = "idle"
ExtractInitial == epc = "idle" /\ ehttp = NoEHttp
NextPipelines ==
    \/ /\ ExtractInitial /\ spc = "idle" /\ resumes = <<>>
       /\ \E i \in Inv :
             /\ \A j \in Inv \ {i} : pc[j] = "idle"
             /\ \/ \E u \in UserIds, r \in ResumeIds : GetResumePdf(i, u, r)
                \/ Compile(i)
                \/ RouteRespond(i)
    \/ ExtractInitial /\ CompileQuiet /\ NextSynth
    \/ /\ CompileQuiet /\ dirs = <<>> /\ \A i \in Inv : http[i] = NoHttp
       /\ spc = "idle" /\ shttp = NoSHttp /\ resumes = <<>>
       /\ NextExtract
SpecPipelines == Init /\ [][NextPipelines]_vars

\* a lookup that finds a row under every id
AnyRow(r) == [found |-> TRUE, new_resume |-> <<>>]
\* config.py:296-303, ResumeRepository.get_by_id on the rows that
\* resume_repo.create has inserted; the id of a row is its position
StoredRow(r) ==
    IF r \in 1..Len(resumes)
    THEN [found |-> TRUE, new_resume |-> resumes[r].new_resume]
    ELSE [found |-> FALSE, new_resume |-> <<>>]

\* routes.py:186-192 on the table filled by new_resumes
GetStoredResumePdf(i, u, r) ==
    /\ UNCHANGED besidesCompile
    /\ UNCHANGED runs
    /\ pc[i] = "idle"
    /\ IF ~StoredRow(r).found
       THEN /\ http' = [http EXCEPT ![i] =
                   [status |-> 404, detail |-> "User resume not found",
                    body |-> NoContent]]
            /\ UNCHANGED <<pc, via, name, clean>>
       ELSE /\ via' = [via EXCEPT ![i] = "route"]
            /\ name' = [name EXCEPT ![i] = RouteName(u, r)]
            /\ clean' = [clean EXCEPT ![i] = NormalizeLatex(StoredRow(r).new_resume)]
            /\ pc' = [pc EXCEPT ![i] = "mkdtemp"]
            /\ http' = [http EXCEPT ![i] = NoHttp]
    /\ UNCHANGED <<dirs, files, ws, procs, cout, rc, pending, response, touched>>

\* synthesis and compilation on one table new_resume, one request after the
\* other
NextStored ==
    \/ /\ spc = "idle"
       /\ \E i \in Inv :
             /\ \A j \in Inv \ {i} : pc[j] = "idle" /\ http[j] = NoHttp
             /\ \/ \E u \in UserIds, r \in ResumeIds : GetStoredResumePdf(i, u, r)
                \/ Compile(i)
                \/ RouteRespond(i)
    \/ CompileQuiet /\ NextSynth
SpecStored == Init /\ [][NextStored]_vars

\* the listings of a server that stores resumes
SpecList == Init /\ [][NextList]_vars

\* the account requests
SpecUsers == Init /\ [][NextUsers]_vars

\* the two normalisers applied to assembled texts
SpecNorm == Init /\ [][NNext]_vars

(***************************************************************************)
(* Claims                                                                  *)
(***************************************************************************)
Finished(i) == pc[i] \in {"returned", "raised"}

\* C1: once a call of convert_latex_to_pdf has returned or raised, the
\* workspace directory it created and every file in it are gone, whichever
\* way the call ended.
C1_WorkspaceRemoved ==
    \A i \in Inv :
        pc[i] \in {"returned", "raised", "idle"} =>
            /\ \A w \in DOMAIN dirs : dirs[w] # i
            /\ \A f \in DOMAIN files : DirExists(f.dir)

\* a call that had created its workspace ended in an unexpected exception
\* raised while the source was written
C1_Witness ==
    \E i \in Inv : pc[i] = "raised" /\ pending[i] = Raises("OSError", <<"write">>)

\* C2: a call ends in success, with artifact bytes, exactly when the
\* compiler terminated in time with exit code zero and left the output
\* file; in every other case there is no artifact.
C2_SuccessIff ==
    \A i \in Inv :
        Finished(i) =>
            /\ (IsSuccess(pending[i]) /\ response[i].kind = "bytes")
                 <=> (cout[i].how = "exit" /\ cout[i].rc = 0 /\ cout[i].pdf)
            /\ ~IsSuccess(pending[i]) => response[i] = NoResponse

\* one call has returned the artifact while another, whose compiler exited
\* non-zero although it left an output file, has failed
C2_Witness ==
    \E i, j \in Inv :
        /\ pc[i] = "returned" /\ response[i].kind = "bytes"
        /\ cout[i].how = "exit" /\ cout[i].rc = 0 /\ cout[i].pdf
        /\ pc[j] = "raised" /\ cout[j].how = "exit"
        /\ cout[j].rc # 0 /\ cout[j].pdf

\* C3: a non-zero exit code, or exit code zero without the output file,
\* ends the call in a compilation-error failure and never in artifact bytes.
C3_CompilationError ==
    \A i \in Inv :
        (Finished(i) /\ cout[i].how = "exit" /\ (cout[i].rc # 0 \/ ~cout[i].pdf))
            => /\ IsCompilationError(pending[i])
               /\ ~IsSuccess(pending[i])
               /\ response[i] = NoResponse

\* C4: when the time limit expires the child is killed and the call ends in
\* a timeout failure, which is no compilation error and carries no artifact.
C4_Timeout ==
    \A i \in Inv :
        (Finished(i) /\ cout[i].how = "timeout")
            => /\ pc[i] = "raised"
               /\ IsTimeout(pending[i])
               /\ ~IsCompilationError(pending[i])
               /\ "pdflatex" \notin procs[i]
               /\ response[i] = NoResponse

\* a call ended by the time limit
C4_Witness ==
    \E i \in Inv : pc[i] = "raised" /\ cout[i] = Expired /\ pending[i] = TimedOut

\* C5: after a call that timed out has ended, no process it started, child
\* or descendant, is still running.
C5_NoOrphans ==
    \A i \in Inv : (Finished(i) /\ cout[i].how = "timeout") => procs[i] = {}

\* C6: a successful call hands out the bytes of the output file as they were
\* read, not a reference into the workspace, so that the body sent after the
\* workspace is gone is the content of the file.
C6_ArtifactInMemory ==
    \A i \in Inv :
        /\ pc[i] = "returned" =>
              /\ response[i].kind = "bytes"
              /\ response[i].path = NoPath
              /\ Delivered(response[i]) = PdfContent(clean[i])
              /\ \A w \in DOMAIN dirs : dirs[w] # i
        /\ http[i].status = 200 => http[i].body.type = "pdf"

\* a request was answered with the bytes of the compiled stored resume
C6_Witness ==
    \E i \in Inv :
        /\ pc[i] = "idle" /\ http[i].status = 200
        /\ http[i].body = PdfContent(<<"X">>)

\* C7: invocations that hold a workspace at the same time hold different
\* directories, each still the one it created, and no invocation touches a
\* directory created by another.
C7_WorkspaceIsolation ==
    /\ \A i, j \in Inv :
          (i # j /\ ws[i] # 0 /\ ws[j] # 0) => ws[i] # ws[j]
    /\ \A i \in Inv :
          ws[i] # 0 => (ws[i] \in DOMAIN dirs /\ dirs[ws[i]] = i)
    /\ \A i \in Inv : touched[i] \subseteq {i}

\* two invocations with the same output_filename have both run the compiler
C7_Witness ==
    \E i, j \in Inv :
        /\ i # j /\ name[i] = name[j]
        /\ pc[i] = "inspect" /\ pc[j] = "inspect"
        /\ touched[i] = {i} /\ touched[j] = {j}

\* C8: whatever output_filename is, every file the call writes, looks for
\* or removes lies in the workspace the call created.
C8_StaysInWorkspace ==
    \A i \in Inv : \A o \in touched[i] : o = i

\* C9: each of the two normalisers applied to its own result changes
\* nothing.
C9_Idempotent == npc # "build" => twice = once

\* C10: a text fenced with any language tag normalises to its body, and a
\* text without fence and without surrounding whitespace to itself.
C10_FenceStripping ==
    npc # "build" =>
        /\ fenced.on => once = fenced.body
        /\ (~fenced.on /\ ~Contains(raw, Fence) /\ Strip(raw) = raw) => once = raw

\* the text of the compiler's error stream and log that a failure carries
Diagnostic(p) == SelectSeq(p.msg, LAMBDA c : c \in {"e", "g"})

\* C11: every failure of kind Timeout or CompilationError carries a non-empty
\* excerpt of what the compiler wrote on its error stream or in its log.
C11_DiagnosticPresent ==
    \A i \in Inv :
        (Finished(i) /\ (IsTimeout(pending[i]) \/ IsCompilationError(pending[i])))
            => Diagnostic(pending[i]) # <<>>

\* C12: the diagnostic text of a compilation failure never exceeds a fixed
\* limit, however much the compiler wrote on its error stream and in its log.
C12_DiagnosticBounded ==
    \A i \in Inv :
        (Finished(i) /\ IsCompilationError(pending[i]))
            => Len(Diagnostic(pending[i])) <= DiagLimit

\* C13: every fault ends in a RuntimeError, which get_resume_pdf answers with
\* HTTP 500 'PDF generation failed'; no other exception leaves the route
\* handler.
C13_FaultsStructured ==
    \A i \in Inv :
        /\ pc[i] = "raised" => pending[i].exc = "RuntimeError"
        /\ http[i].status = 500 => http[i].detail = "PDF generation failed"

\* C14: an upload whose content type is not application/pdf, or whose payload
\* is empty, is rejected with a validation failure and text_gen_pdf has not
\* been called for it.
C14_RejectedBeforeCall ==
    (upload.content_type # "application/pdf" \/ upload.size = 0) =>
        /\ ecalls = 0
        /\ epc = "done" => IsValidationFailure(epending)

\* an empty application/pdf upload and a text/plain upload have been rejected
C14_Witness ==
    /\ epc = "done" /\ ecalls = 0 /\ IsValidationFailure(epending)
    /\ upload \in {[content_type |-> "application/pdf", size |-> 0],
                   [content_type |-> "text/plain", size |-> 1]}

\* C15: in a returned profile each of skills, languages and links has no
\* duplicates and holds exactly the values the generative service returned
\* for the field.
C15_SetReduced ==
    (epc = "done" /\ epending.kind = "return") =>
        \A f \in AtomicLists :
            /\ Cardinality(Range(profile[f].v)) = Len(profile[f].v)
            /\ Range(profile[f].v) = Range(reply.obj[f].v)

\* C16: a field that is absent or null in the JSON object of the service does
\* not make the extraction fail and is null in the returned profile.
C16_NullPreserved ==
    (epc = "done" /\ reply.kind = "object") =>
        \A f \in Fields :
            reply.obj[f].t \in {"absent", "null"} =>
                (epending.kind = "return" /\ profile[f] = None)

\* C17: an answer that is not valid JSON ends in a failure that a caller can
\* tell apart from the rejection of the upload and from the outcome of an
\* answer that is the empty object.
C17_KindsDistinct ==
    epc = "done" =>
        /\ IsInvalidJson(epending) <=> reply.kind = "invalid"
        /\ IsValidationFailure(epending) <=>
               (upload.content_type # "application/pdf" \/ upload.size = 0)
        /\ (reply.kind = "object" /\ reply.obj = EmptyObject) =>
               (~IsInvalidJson(epending) /\ ~IsValidationFailure(epending))

\* an answer that is not JSON has been reported as such
C17_Witness ==
    epc = "done" /\ reply.kind = "invalid" /\ IsInvalidJson(epending)

\* C19: when text_gen returns no text or the empty text, the request is
\* answered with HTTP 500 'Resume generation failed' after that one call, and
\* no row is added to new_resume.
C19_EmptyGeneration ==
    (spc = "idle" /\ (gen.kind = "none" \/ (gen.kind = "text" /\ gen.text = <<>>))) =>
        /\ shttp = HttpError(500, "Resume generation failed")
        /\ scalls = 1
        /\ resumes = before

\* the empty text has been answered while the table holds a row
C19_Witness ==
    /\ spc = "idle" /\ gen = [kind |-> "text", text |-> <<>>]
    /\ shttp.status = 500 /\ resumes # <<>>

\* C20: an error raised by the generative service during synthesis is
\* answered as a generation failure, not as an unhandled exception, and no
\* row is added to new_resume.
C20_ServiceErrorStructured ==
    (spc = "idle" /\ gen.kind = "error") =>
        /\ shttp = HttpError(500, "Resume generation failed")
        /\ resumes = before

\* C18: for one request the generative service is called at most once and the
\* compiler is started at most once, also after the call or the start has
\* failed.
C18_SingleAttempt ==
    /\ \A i \in Inv : runs[i] <= 1
    /\ ecalls <= 1
    /\ scalls <= 1

\* a compilation has failed after its one start of the compiler, and the last
\* synthesis has failed after its one call of the service
C18_Witness ==
    /\ \E i \in Inv : pc[i] = "raised" /\ runs[i] = 1
    /\ spc = "idle" /\ gen.kind = "error" /\ scalls = 1

\* C21: the text create_resume returns, and so every text stored as
\* new_resume, holds no fence marker and no surrounding whitespace.
C21_StoredNormalized ==
    \A k \in 1..Len(resumes) :
        /\ ~Contains(resumes[k].new_resume, Fence)
        /\ Strip(resumes[k].new_resume) = resumes[k].new_resume

\* C22: a request that names a profile that does not exist is answered with
\* HTTP 404 'Profile not found'; text_gen has not been called and no row has
\* been added to new_resume.
C22_ProfileNotFound ==
    (sreq.user_id \in StoredUsers /\ sreq.user_resume_id \notin StoredProfiles) =>
        /\ spc = "idle"
        /\ shttp = HttpError(404, "Profile not found")
        /\ scalls = 0 /\ gen = NotGenerated
        /\ resumes = before

\* such a request has been answered while the table holds a row
C22_Witness ==
    /\ sreq.user_id \in StoredUsers /\ sreq.user_resume_id \notin StoredProfiles
    /\ shttp.status = 404 /\ resumes # <<>>

\* C23: a compilation under way was requested for the id of a row that a
\* synthesis has stored and works on the text of that row; a request for an
\* id without a row is answered 404 'User resume not found', and no workspace
\* exists and no compiler has been started for it.
C23_CompilesStored ==
    /\ \A i \in Inv :
          pc[i] # "idle" =>
            LET r == name[i][1][3] IN
            /\ r \in 1..Len(resumes)
            /\ clean[i] = NormalizeLatex(resumes[r].new_resume)
            /\ TexFile(i) \in DOMAIN files => files[TexFile(i)].of = clean[i]
    /\ \A w \in DOMAIN dirs : pc[dirs[w]] # "idle"
    /\ \A i \in Inv :
          http[i].status = 404 =>
            (http[i].detail = "User resume not found" /\ pc[i] = "idle"
             /\ ws[i] = 0 /\ runs[i] = 0 /\ procs[i] = {})

\* the compiler has run on the fenced text stored as the second row
C23_Witness ==
    \E i \in Inv :
        /\ pc[i] = "inspect" /\ runs[i] = 1 /\ name[i][1][3] = 2
        /\ Len(resumes) = 2 /\ Contains(resumes[2].new_resume, Fence)
        /\ files[TexFile(i)].of = <<"X">>

\* C24: a listing that finds nothing is answered with HTTP 404 and the
\* message of its route: 'User profiles not found' for the profiles of a
\* user, 'User resumes not found' for the resumes of a user.
C24_EmptyListing404 ==
    /\ (areq.op = "list_profiles" /\ ahttp.items = <<>>)
          => ahttp.status = 404 /\ ahttp.detail = "User profiles not found"
    /\ (areq.op = "list_resumes" /\ ahttp.items = <<>>)
          => ahttp.status = 404 /\ ahttp.detail = "User resumes not found"

\* C25: no two stored users share an email address; a signup with an email
\* address that is already registered is answered with 'error' and 'User
\* already exists' (HTTP 400), creates no user and leaves the stored rows,
\* the existing user's name, password and phone included, as they were.
C25_EmailUnique ==
    /\ \A i, j \in 1..Len(users) : users[i].email = users[j].email => i = j
    /\ (/\ areq.op = "signup"
        /\ \E k \in 1..Len(ubefore) : ubefore[k].email = areq.email)
          => /\ ares.status = "error"
             /\ ares.message = "User already exists"
             /\ ahttp.status = 400
             /\ ahttp.detail = "User already exists"
             /\ users = ubefore

\* a second signup with a registered email address, another name and another
\* password, has been answered
C25_Witness ==
    /\ areq.op = "signup"
    /\ ahttp.status = 400
    /\ \E k \in 1..Len(users) :
          /\ users[k].email = areq.email
          /\ users[k].name # areq.name
          /\ users[k].password # Hash(areq.password)

\* C26: check_login returns 'success' with the data of the user exactly when
\* the email address is registered and the password is the one currently
\* stored for it; otherwise it returns 'error' with 'Invalid credentials' and
\* the login route answers HTTP 401.
C26_LoginExact ==
    areq.op = "login" =>
        LET Holders == { k \in 1..Len(users) :
                            /\ users[k].email = areq.email
                            /\ users[k].password = Hash(areq.password) }
        IN  /\ ares.status = "success" <=> Holders # {}
            /\ ares.status = "success" =>
                  /\ \E k \in Holders :
                        ares.user = [id |-> k, name |-> users[k].name,
                                     email |-> users[k].email,
                                     phone |-> users[k].phone]
                  /\ ahttp.status = 200
            /\ ares.status # "success" =>
                  /\ ares.status = "error"
                  /\ ares.message = "Invalid credentials"
                  /\ ahttp.status = 401
                  /\ ahttp.detail = "Invalid credentials"

\* a login with the password that an update stored has succeeded while
\* another user is registered
C26_Witness ==
    /\ areq.op = "login"
    /\ ares.status = "success"
    /\ Len(users) = 2
    /\ areq.password = "q"
    /\ \E k \in 1..Len(users) : users[k].email # areq.email

\* C27: whenever the repository's update returns 'error', the route answers
\* with an HTTP error that carries the message and a status code, whatever
\* the message is; no message makes the handler itself fail.
C27_ErrorsAnswered ==
    (areq.op = "update" /\ ares.status = "error")
        => /\ ahttp.detail = ares.message
           /\ ahttp.status \in {400, 404, 500}

\* C28: an update whose password is blank or missing leaves the stored
\* password as it was, so that the old password still logs in; an update
\* with no effective change (no data, or only a blank password) writes
\* nothing and returns 'success'.
C28_BlankPasswordKept ==
    (areq.op = "update" /\ areq.user_id \in 1..Len(ubefore)) =>
        LET d == areq.data
            blank == "password" \notin DOMAIN d \/ d["password"] = ""
            old == ubefore[areq.user_id]
        IN  /\ blank =>
                  /\ users[areq.user_id].password = old.password
                  /\ \A pw \in Passwords :
                        old.password = Hash(pw)
                            => users[areq.user_id].password = Hash(pw)
            /\ (blank /\ DOMAIN d \subseteq {"password"}) =>
                  /\ users = ubefore
                  /\ ~ares.wrote
                  /\ ares.status = "success"
                  /\ ahttp.status = 200

\* an update that carries a blank password and a new name has been written
C28_Witness ==
    /\ areq.op = "update"
    /\ areq.user_id \in 1..Len(ubefore)
    /\ DOMAIN areq.data = {"password", "name"}
    /\ areq.data["password"] = ""
    /\ ares.wrote
    /\ users[areq.user_id].name # ubefore[areq.user_id].name
    /\ users[areq.user_id].password = ubefore[areq.user_id].password

\* C29: every returned profile has a name and an email address that are
\* strings and not empty; when the answer of the service omits name or email,
\* or gives null or the empty string for one of them, the extraction fails
\* with RuntimeError and no profile is returned.
C29_NameAndEmail ==
    /\ \A p \in {profile, ehttp.data} :
          p # NoProfile => \A f \in Required : p[f].t = "str" /\ p[f].v # <<>>
    /\ (/\ epc = "done"
        /\ reply.kind = "object"
        /\ \E f \in Required : reply.obj[f] \in {Absent, None, JStr(<<>>)})
          => /\ epending.kind = "raise"
             /\ epending.exc = "RuntimeError"
             /\ profile = NoProfile

\* an answer whose email is the empty string has been refused
C29_Witness ==
    /\ epc = "done"
    /\ reply.kind = "object"
    /\ reply.obj["name"] = JStr(<<"A">>)
    /\ reply.obj["email"] = JStr(<<>>)
    /\ epending = Rewrap(InvalidFormat)

====
